---- MODULE Spec2Model ----
(***************************************************************************)
(* Junk Accumulation Model (src/jam_app.py): the vector field jam_model,   *)
(* the simulation runner run_simulation, and the sidebar script (number    *)
(* inputs, reset button, keyed sliders) that feeds it.                     *)
(*                                                                         *)
(* Numbers.  The program computes in IEEE doubles.  Here the populations   *)
(* and rates handed to the core are integers (a subset of the reals on     *)
(* which the polynomial vector field is exact), a quotient is the exact    *)
(* rational [num, den] in lowest terms, and a division by zero yields the  *)
(* IEEE special values: kind "inf" carrying the sign of the numerator, or  *)
(* kind "nan".                                                             *)
(*                                                                         *)
(* Integrator.  scipy's solve_ivp is a library outside the repository.  It *)
(* is modelled by what run_simulation relies on: it evaluates jam_model to *)
(* advance the state, reports the state at the points of t_eval it has     *)
(* reached, and gives up (status -1, fewer columns than t_eval has points) *)
(* when a step leaves the representable range [-MaxMag, MaxMag].  Rates    *)
(* are counted per 1/(NumSamples-1) of a time unit, so the increment over  *)
(* one sample interval of a horizon T is T * jam_model(y).                 *)
(*                                                                         *)
(* Three specifications:                                                   *)
(*   Spec     one call of jam_model or run_simulation on inputs drawn from *)
(*            bounded sets;                                                *)
(*   SpecDet  two calls of run_simulation in a row, with a press of the    *)
(*            reset button possible before, between and after them;        *)
(*   SpecApp  the sidebar script, re-run on every widget interaction.      *)
(***************************************************************************)
EXTENDS Integers, Sequences, FiniteSets, TLC

VARIABLES
    pending,        \* calls of the core still to be made
    call,           \* the last call of the core made, with what it returned
    earlier,        \* the call of run_simulation made before it, if any
    number_input,   \* S0, I0, R0 as typed into the sidebar
    session_state,  \* st.session_state: slider key -> value
    horizon,        \* the "Simulation Time" slider
    button,         \* what st.sidebar.button returned in the last script run
    args            \* the parameters the last script run handed to run_simulation

coreVars == <<pending, call, earlier>>
appVars == <<number_input, session_state, horizon, button, args>>
vars == <<pending, call, earlier, number_input, session_state, horizon, button, args>>

----------------------------------------------------------------------------
\* Constants of the program and bounds of the model

\* Sampling resolution: np.linspace(0, T, 1000).
NumSamples == 1000

\* Defaults of the sidebar.
S0Default == 6768
I0Default == 34000
R0Default == 0
LambdaDefault == 2262
ThetaDefault == 29
HorizonDefault == 50

\* Largest magnitude the integrator can represent.
MaxMag == 5000

\* Bounds of the inputs handed to the core: the populations a run starts
\* from, and the populations the vector field is evaluated at.
MaxPop == 1
MaxState == 3

Pops == 0..MaxPop
Horizons == {1, 2}
LaunchRates == {0, 1}
CollisionRates == {0, 1}
Fragments == {0, 2}
RemovalRates == {-1, 0, 1}
DecayRates == {0, 1}

Params == [Lambda : LaunchRates, beta : CollisionRates, theta : Fragments,
           gamma : RemovalRates, mu_S : DecayRates, mu_I : DecayRates]

Keys == {"Lambda", "beta", "theta", "gamma", "mu_S", "mu_I"}

----------------------------------------------------------------------------
\* Arithmetic

Abs(x) == IF x < 0 THEN -x ELSE x

Sign(x) == IF x > 0 THEN 1 ELSE IF x < 0 THEN -1 ELSE 0

RECURSIVE GCD(_, _)
GCD(a, b) == IF b = 0 THEN a ELSE GCD(b, a % b)

\* True division n / d of Python and numpy: the exact quotient in lowest
\* terms, and the IEEE result when the divisor is zero.
TrueDiv(n, d) ==
    IF d = 0
      THEN [kind |-> IF n = 0 THEN "nan" ELSE "inf", num |-> Sign(n), den |-> 0]
      ELSE LET g == GCD(Abs(n), Abs(d))
           IN  [kind |-> "fin", num |-> (Sign(d) * n) \div g, den |-> Abs(d) \div g]

\* A whole number as a quotient.
Num(n) == TrueDiv(n, 1)

----------------------------------------------------------------------------
\* jam_model: the vector field

\* jam_model with the fragment multiplier theta in place of (1 + theta).
jam_modelThetaOnly(t, y, p) ==
    LET S == y[1]
        I == y[2]
        dSdt == p.Lambda - p.beta * S * I - p.mu_S * S
        dIdt == p.theta * p.beta * S * I - (p.gamma + p.mu_I) * I
        dRdt == p.gamma * I + p.mu_S * S + p.mu_I * I
    IN  <<dSdt, dIdt, dRdt>>

\* jam_model with the collision gain of I not scaled by beta.
jam_modelNoBeta(t, y, p) ==
    LET S == y[1]
        I == y[2]
        dSdt == p.Lambda - p.beta * S * I - p.mu_S * S
        dIdt == (1 + p.theta) * S * I - (p.gamma + p.mu_I) * I
        dRdt == p.gamma * I + p.mu_S * S + p.mu_I * I
    IN  <<dSdt, dIdt, dRdt>>

\* jam_model with the decayed fragments missing from dR/dt.
jam_modelLeakyR(t, y, p) ==
    LET S == y[1]
        I == y[2]
        dSdt == p.Lambda - p.beta * S * I - p.mu_S * S
        dIdt == (1 + p.theta) * p.beta * S * I - (p.gamma + p.mu_I) * I
        dRdt == p.gamma * I + p.mu_S * S
    IN  <<dSdt, dIdt, dRdt>>

jam_model(t, y, p) ==
    LET S == y[1]
        I == y[2]
        dSdt == p.Lambda - p.beta * S * I - p.mu_S * S
        dIdt == (1 + p.theta) * p.beta * S * I - (p.gamma + p.mu_I) * I
        dRdt == p.gamma * I + p.mu_S * S + p.mu_I * I
    IN  <<dSdt, dIdt, dRdt>>

----------------------------------------------------------------------------
\* The sample grid and the integrator

\* np.linspace without its endpoint: num steps of (stop - start) / num.
linspaceOpen(start, stop, num) ==
    [i \in 1..num |-> TrueDiv(start * num + (i - 1) * (stop - start), num)]

\* np.linspace(start, stop, num): start + i * step with step = (stop - start) /
\* (num - 1), the last sample set to stop itself.
linspace(start, stop, num) ==
    LET div == num - 1
    IN  [i \in 1..num |->
            IF i = num THEN Num(stop)
            ELSE TrueDiv(start * div + (i - 1) * (stop - start), div)]

InRange(y) == \A j \in 1..3 : Abs(y[j]) <= MaxMag

\* One step of the integrator, over a sample interval of the horizon T.
Step(y, p, T) ==
    LET f == jam_model(0, y, p)
    IN  <<y[1] + T * f[1], y[2] + T * f[2], y[3] + T * f[3]>>

\* The columns the integrator reports from state y on, n at most: it stops at
\* the first step that leaves the representable range.  (The n columns are
\* produced half by half, which keeps the evaluation shallow.)
RECURSIVE Integrate(_, _, _, _)
Integrate(y, p, T, n) ==
    IF n = 1 THEN <<y>>
    ELSE LET h == n \div 2
             first == Integrate(y, p, T, h)
         IN  IF Len(first) < h THEN first
             ELSE LET yn == Step(first[h], p, T)
                  IN  IF InRange(yn) THEN first \o Integrate(yn, p, T, n - h)
                      ELSE first

\* solve_ivp(jam_model, (0, T), y0, args = p, t_eval = t_eval): status 0 and a
\* column per point of t_eval, or status -1 and the columns reached.  No column
\* is reported when not even the first step can be taken.
solve_ivp(y0, p, T, t_eval) ==
    LET y == IF InRange(y0) /\ InRange(jam_model(0, y0, p))
               THEN Integrate(y0, p, T, Len(t_eval))
               ELSE << >>
    IN  [status |-> IF Len(y) = Len(t_eval) THEN 0 ELSE -1, y |-> y]

\* What a call of run_simulation that raises hands back: no series.
Raised(error) ==
    [status |-> error, t |-> << >>, S |-> << >>, I |-> << >>, R |-> << >>,
     Rt |-> << >>]

\* run_simulation with a guard on the denominator of Rt.
run_simulationGuarded(y0, p, T) ==
    LET t_eval == linspace(0, T, NumSamples)
        sol == solve_ivp(y0, p, T, t_eval)
    IN  IF Len(sol.y) = 0 THEN Raised("ValueError")
        ELSE IF p.gamma + p.mu_I = 0 THEN Raised("ZeroDivisionError")
        ELSE LET S == [i \in 1..Len(sol.y) |-> sol.y[i][1]]
                 I == [i \in 1..Len(sol.y) |-> sol.y[i][2]]
                 R == [i \in 1..Len(sol.y) |-> sol.y[i][3]]
                 Rt == [i \in 1..Len(S) |->
                          TrueDiv((1 + p.theta) * p.beta * S[i], p.gamma + p.mu_I)]
             IN  [status |-> "returned", t |-> t_eval, S |-> S, I |-> I, R |-> R,
                  Rt |-> Rt]

\* run_simulation with Rt computed from the fragment series I.
run_simulationRtFromI(y0, p, T) ==
    LET t_eval == linspace(0, T, NumSamples)
        sol == solve_ivp(y0, p, T, t_eval)
    IN  IF Len(sol.y) = 0 THEN Raised("ValueError")
        ELSE LET S == [i \in 1..Len(sol.y) |-> sol.y[i][1]]
                 I == [i \in 1..Len(sol.y) |-> sol.y[i][2]]
                 R == [i \in 1..Len(sol.y) |-> sol.y[i][3]]
                 Rt == [i \in 1..Len(S) |->
                          TrueDiv((1 + p.theta) * p.beta * I[i], p.gamma + p.mu_I)]
             IN  [status |-> "returned", t |-> t_eval, S |-> S, I |-> I, R |-> R,
                  Rt |-> Rt]

\* run_simulation that resumes from the end of the trajectory of the call
\* before it instead of starting from y0.
run_simulationResumed(y0, p, T) ==
    LET t_eval == linspace(0, T, NumSamples)
        prev == call
        start == IF prev.fn = "run_simulation" /\ prev.out.status = "returned"
                   THEN LET k == Len(prev.out.S)
                        IN  <<prev.out.S[k], prev.out.I[k], prev.out.R[k]>>
                   ELSE y0
        sol == solve_ivp(start, p, T, t_eval)
    IN  IF Len(sol.y) = 0 THEN Raised("ValueError")
        ELSE LET S == [i \in 1..Len(sol.y) |-> sol.y[i][1]]
                 I == [i \in 1..Len(sol.y) |-> sol.y[i][2]]
                 R == [i \in 1..Len(sol.y) |-> sol.y[i][3]]
                 Rt == [i \in 1..Len(S) |->
                          TrueDiv((1 + p.theta) * p.beta * S[i], p.gamma + p.mu_I)]
             IN  [status |-> "returned", t |-> t_eval, S |-> S, I |-> I, R |-> R,
                  Rt |-> Rt]

\* run_simulation(y0, L, b, th, g, mS, mI, T).  The status of the integrator is
\* not looked at; "S, I, R = sol.y" raises ValueError when sol.y has no rows to
\* unpack, which is the case when no column was reported.
run_simulation(y0, p, T) ==
    LET t_eval == linspace(0, T, NumSamples)
        sol == solve_ivp(y0, p, T, t_eval)
    IN  IF Len(sol.y) = 0 THEN Raised("ValueError")
        ELSE LET S == [i \in 1..Len(sol.y) |-> sol.y[i][1]]
                 I == [i \in 1..Len(sol.y) |-> sol.y[i][2]]
                 R == [i \in 1..Len(sol.y) |-> sol.y[i][3]]
                 Rt == [i \in 1..Len(S) |->
                          TrueDiv((1 + p.theta) * p.beta * S[i], p.gamma + p.mu_I)]
             IN  [status |-> "returned", t |-> t_eval, S |-> S, I |-> I, R |-> R,
                  Rt |-> Rt]

----------------------------------------------------------------------------
\* The sidebar script

NumberInputDefault == [S0 |-> S0Default, I0 |-> I0Default, R0 |-> R0Default]

\* Values a user may type into the number inputs.
NumberInputValues ==
    [S0 |-> {S0Default, 9000}, I0 |-> {I0Default, 25000}, R0 |-> {R0Default, 100}]

\* Values a user may drag a slider to, within the slider's range.
SliderValues ==
    [Lambda |-> {Num(0), Num(10000)},
     beta   |-> {TrueDiv(1, 1000000000), TrueDiv(1, 100000)},
     theta  |-> {Num(0), Num(50)},
     gamma  |-> {Num(0), TrueDiv(5, 1000), TrueDiv(1, 10)},
     mu_S   |-> {Num(0), TrueDiv(1, 10)},
     mu_I   |-> {Num(0), TrueDiv(1, 10)}]

HorizonValues == {1, HorizonDefault, 100}

\* The value argument of each st.sidebar.slider: what the slider shows when
\* st.session_state holds nothing under its key.
SliderDefault(key, ni) ==
    CASE key = "Lambda" -> Num(LambdaDefault)
      [] key = "beta"   -> TrueDiv(9, ni.S0 * ni.I0)
      [] key = "theta"  -> Num(ThetaDefault)
      [] key = "gamma"  -> Num(0)
      [] key = "mu_S"   -> TrueDiv(450, ni.S0)
      [] key = "mu_I"   -> TrueDiv(250, ni.I0)

\* What the branch of "Reset to paper baseline" stores under each key.
ResetValue(key, ni) ==
    CASE key = "Lambda" -> Num(LambdaDefault)
      [] key = "beta"   -> TrueDiv(9, ni.S0 * ni.I0)
      [] key = "theta"  -> Num(ThetaDefault)
      [] key = "gamma"  -> Num(0)
      [] key = "mu_S"   -> TrueDiv(250, ni.S0)
      [] key = "mu_I"   -> TrueDiv(450, ni.I0)

\* A keyed slider returns the value st.session_state holds under its key, and
\* its default when there is none (the value is then stored under the key).
slider(key, default, ss) == IF key \in DOMAIN ss THEN ss[key] ELSE default

\* One run of the script, top to bottom: clicked is what the button returns,
\* ss the session state the run starts with, ni the number inputs, hz the
\* horizon slider.  Yields the session state the run leaves and the arguments
\* of its call of run_simulation.
Script(clicked, ss, ni, hz) ==
    LET afterButton ==
            IF clicked
              THEN [k \in DOMAIN ss \cup Keys |->
                        IF k \in Keys THEN ResetValue(k, ni) ELSE ss[k]]
              ELSE ss
        afterSliders ==
            [k \in Keys |-> slider(k, SliderDefault(k, ni), afterButton)]
    IN  [session_state |-> afterSliders,
         button |-> clicked,
         args |-> [y0 |-> <<ni.S0, ni.I0, ni.R0>>, p |-> afterSliders, T |-> hz]]

RunScript(clicked, ss, ni, hz) ==
    LET run == Script(clicked, ss, ni, hz)
    IN  /\ session_state' = run.session_state
        /\ button' = run.button
        /\ args' = run.args
        /\ number_input' = ni
        /\ horizon' = hz

\* The page as first loaded: nothing in st.session_state, every widget at its
\* default.
FirstLoad ==
    LET run == Script(FALSE, << >>, NumberInputDefault, HorizonDefault)
    IN  /\ session_state = run.session_state
        /\ button = run.button
        /\ args = run.args
        /\ number_input = NumberInputDefault
        /\ horizon = HorizonDefault

MoveSlider ==
    \E key \in Keys : \E v \in SliderValues[key] :
        /\ RunScript(FALSE, [session_state EXCEPT ![key] = v], number_input, horizon)
        /\ UNCHANGED coreVars

MoveHorizon ==
    \E hz \in HorizonValues :
        /\ RunScript(FALSE, session_state, number_input, hz)
        /\ UNCHANGED coreVars

\* A new S0, I0 or R0 changes the default of the sliders computed from it.
\* Whether such a slider keeps the value stored under its key or starts again
\* from its new default is the widget library's choice: both are allowed.
EditNumberInput ==
    \E field \in {"S0", "I0", "R0"} : \E v \in NumberInputValues[field] :
    \E keep \in BOOLEAN :
        LET ni == [number_input EXCEPT ![field] = v]
            rebuilt == {k \in Keys :
                          SliderDefault(k, ni) # SliderDefault(k, number_input)}
            ss == IF keep THEN session_state
                  ELSE [k \in Keys \ rebuilt |-> session_state[k]]
        IN  /\ RunScript(FALSE, ss, ni, horizon)
            /\ UNCHANGED coreVars

ClickReset ==
    /\ RunScript(TRUE, session_state, number_input, horizon)
    /\ UNCHANGED coreVars

----------------------------------------------------------------------------
\* Calls of the core

JamCalls ==
    [fn : {"jam_model"}, y : (0..MaxState) \X (0..MaxState) \X {0}, p : Params]

RunCalls ==
    [fn : {"run_simulation"}, y : Pops \X Pops \X {0}, p : Params, T : Horizons]

\* The calls made twice in a row: collisions on, no launches, no natural
\* decay, removal off or negative.
DetCalls ==
    {c \in RunCalls : /\ c.p.Lambda = 0 /\ c.p.beta = 1 /\ c.p.theta = 0
                      /\ c.p.mu_S = 0 /\ c.p.mu_I = 0 /\ c.p.gamma <= 0
                      /\ c.T = 1}

NoCall == [fn |-> "none"]

InvokeJamModel ==
    /\ pending # << >>
    /\ Head(pending).fn = "jam_model"
    /\ LET c == Head(pending)
       IN  call' = [fn |-> "jam_model", y |-> c.y, p |-> c.p,
                    dy |-> jam_model(0, c.y, c.p)]
    /\ earlier' = earlier
    /\ pending' = Tail(pending)
    /\ UNCHANGED appVars

\* sol_status records how the integrator ended inside the call; the call
\* itself does not look at it.
InvokeRunSimulation ==
    /\ pending # << >>
    /\ Head(pending).fn = "run_simulation"
    /\ LET c == Head(pending)
       IN  call' = [fn |-> "run_simulation", y |-> c.y, p |-> c.p, T |-> c.T,
                    sol_status |->
                        solve_ivp(c.y, c.p, c.T, linspace(0, c.T, NumSamples)).status,
                    out |-> run_simulation(c.y, c.p, c.T)]
    /\ earlier' = call
    /\ pending' = Tail(pending)
    /\ UNCHANGED appVars

----------------------------------------------------------------------------
\* Specifications

Init ==
    /\ pending \in {<<c>> : c \in JamCalls \cup RunCalls}
    /\ call = NoCall
    /\ earlier = NoCall
    /\ FirstLoad

Next == InvokeJamModel \/ InvokeRunSimulation

Spec == Init /\ [][Next]_vars

InitDet ==
    /\ pending \in {<<c, d>> : c \in DetCalls, d \in DetCalls}
    /\ call = NoCall
    /\ earlier = NoCall
    /\ FirstLoad

NextDet == InvokeRunSimulation \/ ClickReset

SpecDet == InitDet /\ [][NextDet]_vars

InitApp ==
    /\ pending = << >>
    /\ call = NoCall
    /\ earlier = NoCall
    /\ FirstLoad

NextApp == MoveSlider \/ MoveHorizon \/ EditNumberInput \/ ClickReset

SpecApp == InitApp /\ [][NextApp]_vars

----------------------------------------------------------------------------
\* Vocabulary of the claims

IsRun == call.fn = "run_simulation"
IsField == call.fn = "jam_model"
Returned == IsRun /\ call.out.status = "returned"

\* The numerator and denominator of the reproduction number at intact
\* population S.
RtNum(S, p) == (1 + p.theta) * p.beta * S
RtDen(p) == p.gamma + p.mu_I

AboveOne(q) == q.kind = "fin" /\ q.num > q.den
BelowOne(q) == q.kind = "fin" /\ q.num < q.den

\* b - a and a < b for finite quotients.
Diff(b, a) == TrueDiv(b.num * a.den - a.num * b.den, a.den * b.den)
Less(a, b) == a.num * b.den < b.num * a.den

ZeroGrowth(p) ==
    /\ p.Lambda = 0 /\ p.beta = 0 /\ p.mu_S = 0 /\ p.mu_I = 0 /\ p.gamma = 0

NonNegative(y, p) ==
    /\ y[1] >= 0 /\ y[2] >= 0
    /\ p.Lambda >= 0 /\ p.beta >= 0 /\ p.theta >= 0
    /\ p.gamma >= 0 /\ p.mu_S >= 0 /\ p.mu_I >= 0

----------------------------------------------------------------------------
\* C1: whatever the outcome of the integrator, the five sequences that
\* run_simulation returns (t, S, I, R, Rt) have the same length, the sampling
\* resolution 1000.
C1_SeriesHaveSamplingLength ==
    Returned =>
        /\ Len(call.out.t) = NumSamples
        /\ Len(call.out.S) = NumSamples
        /\ Len(call.out.I) = NumSamples
        /\ Len(call.out.R) = NumSamples
        /\ Len(call.out.Rt) = NumSamples

\* C2: when the integrator cannot complete the horizon, run_simulation ends in
\* the error NumericalFailure and hands no series to the caller; it never
\* returns a truncated trajectory.
C2_FailureIsAnError ==
    (IsRun /\ call.sol_status # 0) =>
        /\ call.out.status = "NumericalFailure"
        /\ call.out.t = << >> /\ call.out.S = << >> /\ call.out.I = << >>
        /\ call.out.R = << >> /\ call.out.Rt = << >>

\* C3: after "Reset to paper baseline" the six parameters handed to the next
\* simulation run are the paper-baseline defaults, the values the sliders
\* start with: Lambda = 2262, beta = 9/(S0 I0), theta = 29, gamma = 0,
\* mu_S = 450/S0, mu_I = 250/I0.
C3_ResetRestoresBaseline ==
    button => \A k \in Keys : args.p[k] = SliderDefault(k, number_input)

\* C4 as stated: wherever gamma + mu_I > 0, Rt > 1 makes the dI/dt of
\* jam_model strictly positive and Rt < 1 makes it strictly negative, at every
\* state and at every sample of a run.
C4_RtSignDecidesGrowth ==
    /\ (IsField /\ RtDen(call.p) > 0) =>
          LET q == TrueDiv(RtNum(call.y[1], call.p), RtDen(call.p))
          IN  /\ AboveOne(q) => call.dy[2] > 0
              /\ BelowOne(q) => call.dy[2] < 0
    /\ (Returned /\ RtDen(call.p) > 0) =>
          \A i \in 1..Len(call.out.Rt) :
              LET dI == jam_model(0, <<call.out.S[i], call.out.I[i], call.out.R[i]>>,
                                  call.p)[2]
              IN  /\ AboveOne(call.out.Rt[i]) => dI > 0
                  /\ BelowOne(call.out.Rt[i]) => dI < 0

\* C4 amended: wherever gamma + mu_I > 0 and the fragment population I is
\* positive, Rt > 1 makes the dI/dt of jam_model strictly positive and Rt < 1
\* makes it strictly negative, at every state and at every sample of a run.
C4_RtSignDecidesGrowthOfFragments ==
    /\ (IsField /\ RtDen(call.p) > 0 /\ call.y[2] > 0) =>
          LET q == TrueDiv(RtNum(call.y[1], call.p), RtDen(call.p))
          IN  /\ AboveOne(q) => call.dy[2] > 0
              /\ BelowOne(q) => call.dy[2] < 0
    /\ (Returned /\ RtDen(call.p) > 0) =>
          \A i \in 1..Len(call.out.Rt) :
              call.out.I[i] > 0 =>
                  LET dI == jam_model(0, <<call.out.S[i], call.out.I[i],
                                          call.out.R[i]>>, call.p)[2]
                  IN  /\ AboveOne(call.out.Rt[i]) => dI > 0
                      /\ BelowOne(call.out.Rt[i]) => dI < 0

C4_Witness ==
    /\ Returned /\ RtDen(call.p) > 0
    /\ \E i \in 1..Len(call.out.Rt) :
          /\ call.out.I[i] > 0
          /\ AboveOne(call.out.Rt[i])
          /\ jam_model(0, <<call.out.S[i], call.out.I[i], call.out.R[i]>>,
                       call.p)[2] > 0

\* C5: the time sequence run_simulation returns has exactly 1000 elements,
\* starts at 0, ends at T, and is strictly increasing with the equal spacing
\* T/999.
C5_TimeGrid ==
    Returned =>
        LET t == call.out.t
        IN  /\ Len(t) = NumSamples
            /\ t[1] = Num(0)
            /\ t[NumSamples] = Num(call.T)
            /\ \A i \in 1..(NumSamples - 1) :
                  /\ Less(t[i], t[i + 1])
                  /\ Diff(t[i + 1], t[i]) = TrueDiv(call.T, NumSamples - 1)

C5_Witness ==
    /\ Returned /\ call.T = 2
    /\ call.out.t[NumSamples] = Num(2)
    /\ call.out.t[2] = TrueDiv(2, 999)

\* C6: when gamma + mu_I = 0, run_simulation raises nothing and guards
\* nothing: it returns, every element of Rt is infinite where (1+theta) beta
\* S(t) is non-zero and NaN where it is zero, and t, S, I, R come back as
\* the grid and the trajectory from y0.
C6_ZeroDenominatorPropagates ==
    (IsRun /\ RtDen(call.p) = 0) =>
        /\ call.out.status = "returned"
        /\ Len(call.out.t) = NumSamples
        /\ Len(call.out.S) >= 1
        /\ Len(call.out.I) = Len(call.out.S)
        /\ Len(call.out.R) = Len(call.out.S)
        /\ Len(call.out.Rt) = Len(call.out.S)
        /\ <<call.out.S[1], call.out.I[1], call.out.R[1]>> = call.y
        /\ \A i \in 1..Len(call.out.Rt) :
              call.out.Rt[i].kind =
                  IF RtNum(call.out.S[i], call.p) # 0 THEN "inf" ELSE "nan"

C6_Witness ==
    /\ Returned /\ RtDen(call.p) = 0
    /\ \E i \in 1..Len(call.out.Rt) : call.out.Rt[i].kind = "inf"
    /\ \E i \in 1..Len(call.out.Rt) : call.out.Rt[i].kind = "nan"

\* C7: with Lambda = beta = mu_S = mu_I = gamma = 0, whatever theta and the
\* initial state, jam_model returns (0, 0, 0) and every sample of the
\* trajectory is the initial state: S(t) = S0, I(t) = I0, R(t) = R0.
C7_ZeroGrowth ==
    /\ (IsField /\ ZeroGrowth(call.p)) => call.dy = <<0, 0, 0>>
    /\ (IsRun /\ ZeroGrowth(call.p)) =>
          /\ call.out.status = "returned"
          /\ Len(call.out.S) = NumSamples
          /\ \A i \in 1..NumSamples :
                <<call.out.S[i], call.out.I[i], call.out.R[i]>> = call.y

C7_Witness ==
    /\ Returned /\ ZeroGrowth(call.p) /\ call.p.theta = 2
    /\ call.y = <<1, 1, 0>>
    /\ call.out.I[NumSamples] = 1

C9_RtFromReturnedS ==
    Returned =>
        /\ Len(call.out.Rt) = Len(call.out.S)
        /\ \A i \in 1..Len(call.out.Rt) :
              LET q == call.out.Rt[i]
                  n == (1 + call.p.theta) * call.p.beta * call.out.S[i]
                  d == call.p.gamma + call.p.mu_I
              IN  IF d # 0
                    THEN q.kind = "fin" /\ q.den > 0 /\ q.num * d = q.den * n
                    ELSE q.kind # "fin"

C9_Witness ==
    /\ Returned /\ call.sol_status = 0
    /\ call.p.gamma + call.p.mu_I # 0
    /\ call.out.Rt[NumSamples].num > 0
    /\ call.out.Rt[NumSamples] # call.out.Rt[1]

\* C10: the three derivatives of jam_model sum to Lambda + theta beta S I;
\* and when S, I and all parameters are non-negative, dR/dt >= 0 and the
\* sum is not negative.
C10_Balance ==
    IsField =>
        /\ call.dy[1] + call.dy[2] + call.dy[3] =
              call.p.Lambda + call.p.theta * call.p.beta * call.y[1] * call.y[2]
        /\ NonNegative(call.y, call.p) =>
              /\ call.dy[3] >= 0
              /\ call.dy[1] + call.dy[2] + call.dy[3] >= 0

C10_Witness ==
    /\ IsField /\ NonNegative(call.y, call.p)
    /\ call.p.mu_I > 0 /\ call.p.mu_S > 0 /\ call.p.beta > 0 /\ call.p.theta > 0
    /\ call.y[1] > 0 /\ call.y[2] > 0
    /\ call.dy[1] < 0 /\ call.dy[3] > 0

====
